---- MODULE Spec2Model ----
(***************************************************************************)
(* A model of TextAnalyzer.cpp: freqSorter reads whitespace-delimited      *)
(* stems from a file, counts them, ranks them by descending frequency and  *)
(* writes a two-table CSV report next to the input.                        *)
(*                                                                         *)
(* A character is a one-character string, a std::string is a sequence of   *)
(* characters.  The report is modelled as the sequence of lines inserted   *)
(* into fileOut; a line is the tuple of its comma-separated fields.        *)
(***************************************************************************)
EXTENDS Integers, Sequences, FiniteSets, TLC

VARIABLES
    fileName,         \* the argument of freqSorter (argv[i])
    fileOpen,         \* whether ifstream fileIn(fileName) opened the file
    fileIn,           \* the input file fileIn reads (see "The input file")
    pos,              \* number of characters fileIn has consumed
    totalWordCount,   \* int totalWordCount
    uniqueWordCount,  \* vector<int> uniqueWordCount
    stemHash,         \* unordered_map<string,int> stemHash
    stemFreq,         \* vector<pair<string,int>> stemFreq
    fileOutput,       \* string fileOutput
    out,              \* the lines written to fileOut so far
    i,                \* the loop index of the two output loops
    pc                \* position in freqSorter

vars == <<fileName, fileOpen, fileIn, pos, totalWordCount, uniqueWordCount,
          stemHash, stemFreq, fileOutput, out, i, pc>>

(***************************************************************************)
(* Bounds of the model.                                                    *)
(***************************************************************************)
\* longest input file, in characters, of the exhaustive inputs
MaxLen == 6
\* longest file name, in characters, of the exhaustive names
MaxNameLen == 5
\* the long inputs have up to TopRows + LargeExtra distinct stems
LargeExtra == 2

ContentChars == {"a", "b", " ", "\n"}
NameChars == {"a", ".", "t"}

SeqsUpTo(S, n) == UNION {[1..k -> S] : k \in 0..n}

(***************************************************************************)
(* The input file.  A short file is kept as its characters,                *)
(* [kind |-> "text", chars |-> ...].  A long file is kept as its           *)
(* description, [kind |-> "stairs", stems |-> n]: n distinct two-character *)
(* stems, the k-th occurring k times, each followed by a blank or a        *)
(* newline in turn.  The counts of a long file differ, so its ranking has  *)
(* no ties.  FileLen and CharAt give the length and the characters of      *)
(* either.                                                                 *)
(***************************************************************************)
\* the number of distinct stems of the longest input
LargeStems == 100

Letters ==
    <<"a", "b", "c", "d", "e", "f", "g", "h", "i", "j", "k", "l", "m",
      "n", "o", "p", "q", "r", "s", "t", "u", "v", "w", "x", "y", "z",
      "A", "B", "C", "D", "E", "F", "G", "H", "I", "J", "K", "L", "M",
      "N", "O", "P", "Q", "R", "S", "T", "U", "V", "W", "X", "Y", "Z",
      "0", "1", "2", "3", "4", "5", "6", "7", "8", "9">>

StemNo(k) ==
    <<Letters[((k - 1) \div Len(Letters)) + 1], Letters[((k - 1) % Len(Letters)) + 1]>>

Triangle(k) == (k * (k + 1)) \div 2

StairChar(n, p) ==
    LET q == (p + 2) \div 3
        k == CHOOSE x \in 1..n : Triangle(x - 1) < q /\ q <= Triangle(x)
    IN  IF p % 3 = 0 THEN (IF q % 2 = 1 THEN " " ELSE "\n")
        ELSE StemNo(k)[p % 3]

TextFile(s) == [kind |-> "text", chars |-> s]

StairFile(n) == [kind |-> "stairs", stems |-> n]

FileLen(f) == IF f.kind = "text" THEN Len(f.chars) ELSE 3 * Triangle(f.stems)

CharAt(f, p) == IF f.kind = "text" THEN f.chars[p] ELSE StairChar(f.stems, p)

(***************************************************************************)
(* operator>>(istream&, string&): skip leading whitespace, then take       *)
(* characters up to the next whitespace or the end of the file.            *)
(***************************************************************************)
VT == "<VT>"

IsSpace(c) == c \in {" ", "\t", "\n", VT, "\f", "\r"}

RECURSIVE SkipWs(_, _)
SkipWs(f, p) ==
    IF p < FileLen(f) /\ IsSpace(CharAt(f, p + 1)) THEN SkipWs(f, p + 1) ELSE p

RECURSIVE TokenEnd(_, _)
TokenEnd(f, p) ==
    IF p < FileLen(f) /\ ~IsSpace(CharAt(f, p + 1)) THEN TokenEnd(f, p + 1) ELSE p

\* a loop that tests for the end of the file instead of the extraction
ExtractsUntilEof == fileOpen /\ pos < FileLen(fileIn)

\* the extraction succeeds iff the stream is good and a character is taken
Extracts == fileOpen /\ SkipWs(fileIn, pos) < FileLen(fileIn)

ExtractedStem ==
    LET b == SkipWs(fileIn, pos)
    IN  [j \in 1..(TokenEnd(fileIn, b) - b) |-> CharAt(fileIn, b + j)]

(***************************************************************************)
(* The body of the read loop (lines 34-36).                                *)
(***************************************************************************)
\* the increment of line 34 left out
NextCountStuck(t) == t

NextCount(t) == t + 1

\* pushes the ordinal of the new word instead of its word index
NoteOrdinal(u, h, s, t) ==
    IF s \notin DOMAIN h THEN Append(u, Cardinality(DOMAIN h) + 1) ELSE u

\* pushes without the find test
NoteAlways(u, h, s, t) == Append(u, t)

\* if (stemHash.find(stem) == stemHash.end()) uniqueWordCount.push_back(...)
NoteFirstSeen(u, h, s, t) == IF s \notin DOMAIN h THEN Append(u, t) ELSE u

\* stemHash[stem] = 1 instead of stemHash[stem]++
BumpSetOne(h, s) == [k \in DOMAIN h \cup {s} |-> IF k = s THEN 1 ELSE h[k]]

\* stemHash[stem]++ : operator[] inserts a zero count for an absent key
Bump(h, s) ==
    [k \in DOMAIN h \cup {s} |-> IF k = s
                                  THEN (IF s \in DOMAIN h THEN h[s] ELSE 0) + 1
                                  ELSE h[k]]

(***************************************************************************)
(* pairCompare and the sort of line 41.  The entries come out of the       *)
(* unordered_map in an unspecified order and std::sort is not stable, so   *)
(* the result is any arrangement of the entries in which no entry is       *)
(* placed after one that pairCompare puts behind it.                       *)
(***************************************************************************)
\* the comparison turned round
pairCompareAscending(a, b) == a[2] < b[2]

pairCompare(a, b) == a[2] > b[2]

Entries(h) == {<<s, h[s]>> : s \in DOMAIN h}

RECURSIVE SortedOrders(_)
SortedOrders(S) ==
    IF S = {} THEN {<<>>}
    ELSE UNION {{<<e>> \o r : r \in SortedOrders(S \ {e})} :
                e \in {x \in S : \A f \in S : ~pairCompare(f, x)}}

(***************************************************************************)
(* string::size_type arithmetic of line 43.  A size_t is kept as its       *)
(* 16-bit limbs, least significant first, so that the wrap-around of       *)
(* fileName.size()-4 is computed at its width.                             *)
(***************************************************************************)
SizeBits == 64

NumLimbs == SizeBits \div 16

LimbBase == 2^16

ToSizeT(n) ==
    [k \in 1..NumLimbs |-> IF k = 1 THEN n % LimbBase
                           ELSE IF k = 2 THEN n \div LimbBase ELSE 0]

RECURSIVE Borrow(_, _, _)
Borrow(a, b, k) ==
    IF k = 0 THEN 0
    ELSE IF a[k] - b[k] - Borrow(a, b, k - 1) < 0 THEN 1 ELSE 0

\* a - b modulo 2^SizeBits
SizeSub(a, b) ==
    [k \in 1..NumLimbs |-> (a[k] - b[k] - Borrow(a, b, k - 1)) % LimbBase]

RECURSIVE LessFrom(_, _, _)
LessFrom(a, b, k) ==
    IF k = 0 THEN FALSE
    ELSE IF a[k] # b[k] THEN a[k] < b[k] ELSE LessFrom(a, b, k - 1)

SizeLess(a, b) == LessFrom(a, b, NumLimbs)

\* s.substr(0, count): the count is clamped to the length of s
Substr(s, count) ==
    IF SizeLess(count, ToSizeT(Len(s)))
    THEN SubSeq(s, 1, count[1] + LimbBase * count[2])
    ELSE s

Suffix == <<"_", "O", "u", "t", "p", "u", "t", ".", "c", "s", "v">>

\* the subtraction stopped at zero instead of wrapping
StripSaturating(name) ==
    IF Len(name) >= 4 THEN ToSizeT(Len(name) - 4) ELSE ToSizeT(0)

\* the name cut at its last dot instead of 4 characters from its end
StripAtDot(name) ==
    LET dots == {p \in 1..Len(name) : name[p] = "."}
    IN  IF dots = {} THEN ToSizeT(Len(name))
        ELSE ToSizeT((CHOOSE p \in dots : \A q \in dots : q <= p) - 1)

StripCount(name) == SizeSub(ToSizeT(Len(name)), ToSizeT(4))

OutputPath(name) == Substr(name, StripCount(name)) \o Suffix

(***************************************************************************)
(* stemFreq[i].second / twc (line 47): the int is converted to float and   *)
(* the quotient is the IEEE single-precision division, rounded to nearest  *)
(* even.  A finite non-zero result is mant * 2^exp with a MantBits-bit     *)
(* mantissa.  Counts below 2^MantBits convert to float exactly.            *)
(***************************************************************************)
MantBits == 24

RECURSIVE LeftShift(_, _)
LeftShift(n, d) == IF n >= d THEN 0 ELSE 1 + LeftShift(2 * n, d)

RECURSIVE RightShift(_, _)
RightShift(n, d) == IF n < 2 * d THEN 0 ELSE 1 + RightShift(n, 2 * d)

RECURSIVE DivBits(_, _, _, _)
DivBits(r, den, bits, mant) ==
    IF bits = 0 THEN <<mant, r>>
    ELSE IF 2 * r >= den THEN DivBits(2 * r - den, den, bits - 1, 2 * mant + 1)
                         ELSE DivBits(2 * r, den, bits - 1, 2 * mant)

FloatDiv(n, d) ==
    IF d = 0 THEN [kind |-> IF n = 0 THEN "nan" ELSE "inf"]
    ELSE IF n = 0 THEN [kind |-> "zero"]
    ELSE LET s   == LeftShift(n, d)
             t   == RightShift(n, d)
             num == n * 2^s
             den == d * 2^t
             q   == DivBits(num - den, den, MantBits - 1, 1)
             up  == 2 * q[2] > den \/ (2 * q[2] = den /\ q[1] % 2 = 1)
             m   == IF up THEN q[1] + 1 ELSE q[1]
         IN  IF m = 2^MantBits
             THEN [kind |-> "finite", mant |-> 2^(MantBits - 1),
                   exp |-> t - s - MantBits + 2]
             ELSE [kind |-> "finite", mant |-> m,
                   exp |-> t - s - MantBits + 1]

(***************************************************************************)
(* The lines of the report.  A field written between '"' characters is     *)
(* [quoted |-> text]; the other fields are the values inserted.            *)
(***************************************************************************)
Quoted(s) == [quoted |-> s]

Header1 ==
    <<Quoted(<<"S", "t", "e", "m">>),
      Quoted(<<"F", "r", "e", "q", "u", "e", "n", "c", "y">>),
      Quoted(<<"R", "a", "n", "k">>),
      Quoted(<<"P", "r", "o", "b", "a", "b", "i", "l", "i", "t", "y">>)>>

Header2 ==
    <<Quoted(<<"T", "o", "t", "a", "l", " ", "W", "o", "r", "l", "d", " ", "C", "o", "u", "n", "t">>),
      Quoted(<<"U", "n", "i", "q", "u", "e", " ", "W", "o", "r", "l", "d", " ", "C", "o", "u", "n", "t">>)>>

BlankLine == <<>>

TopRows == 50

\* the rank written 0-based
RankRowZeroBased(e, k, t) == <<Quoted(e[1]), e[2], k, FloatDiv(e[2], t)>>

RankRow(e, k, t) == <<Quoted(e[1]), e[2], k + 1, FloatDiv(e[2], t)>>

UniqueRow(u, k) == <<u[k + 1], k + 1>>

\* the loop of line 47 without its limit
MoreRankRowsNoLimit(k, n) == k < n

\* the condition of the loop of line 47
MoreRankRows(k, n) == k < n /\ k < TopRows

(***************************************************************************)
(* freqSorter, one action per step.                                        *)
(***************************************************************************)
\* lines 33-36: one iteration of the read loop
ReadToken ==
    /\ pc = "read"
    /\ Extracts
    /\ pos' = TokenEnd(fileIn, SkipWs(fileIn, pos))
    /\ totalWordCount' = NextCount(totalWordCount)
    /\ uniqueWordCount' = NoteFirstSeen(uniqueWordCount, stemHash,
                                        ExtractedStem, totalWordCount')
    /\ stemHash' = Bump(stemHash, ExtractedStem)
    /\ UNCHANGED <<fileName, fileOpen, fileIn, stemFreq, fileOutput, out, i, pc>>

\* lines 33, 38: the extraction fails, the loop ends, fileIn is closed
ReadEnd ==
    /\ pc = "read"
    /\ ~Extracts
    /\ pos' = IF fileOpen THEN FileLen(fileIn) ELSE pos
    /\ pc' = "rank"
    /\ UNCHANGED <<fileName, fileOpen, fileIn, totalWordCount, uniqueWordCount,
                   stemHash, stemFreq, fileOutput, out, i>>

\* lines 40-41: copy the table into stemFreq and sort it
Rank ==
    /\ pc = "rank"
    /\ stemFreq' \in SortedOrders(Entries(stemHash))
    /\ pc' = "open"
    /\ UNCHANGED <<fileName, fileOpen, fileIn, pos, totalWordCount,
                   uniqueWordCount, stemHash, fileOutput, out, i>>

\* lines 42-46: derive the output path, open it, write the first header
OpenOutput ==
    /\ pc = "open"
    /\ fileOutput' = OutputPath(fileName)
    /\ out' = <<Header1>>
    /\ i' = 0
    /\ pc' = "rows"
    /\ UNCHANGED <<fileName, fileOpen, fileIn, pos, totalWordCount,
                   uniqueWordCount, stemHash, stemFreq>>

\* line 47: one ranked row
WriteRankRow ==
    /\ pc = "rows"
    /\ MoreRankRows(i, Len(stemFreq))
    /\ out' = Append(out, RankRow(stemFreq[i + 1], i, totalWordCount))
    /\ i' = i + 1
    /\ UNCHANGED <<fileName, fileOpen, fileIn, pos, totalWordCount,
                   uniqueWordCount, stemHash, stemFreq, fileOutput, pc>>

\* line 48: the loop of line 47 ends; the blank line and the second header
WriteHeader2 ==
    /\ pc = "rows"
    /\ ~MoreRankRows(i, Len(stemFreq))
    /\ out' = out \o <<BlankLine, Header2>>
    /\ i' = 0
    /\ pc' = "uniq"
    /\ UNCHANGED <<fileName, fileOpen, fileIn, pos, totalWordCount,
                   uniqueWordCount, stemHash, stemFreq, fileOutput>>

\* line 49: one row of the second table
WriteUniqueRow ==
    /\ pc = "uniq"
    /\ i < Len(uniqueWordCount)
    /\ out' = Append(out, UniqueRow(uniqueWordCount, i))
    /\ i' = i + 1
    /\ UNCHANGED <<fileName, fileOpen, fileIn, pos, totalWordCount,
                   uniqueWordCount, stemHash, stemFreq, fileOutput, pc>>

\* lines 49-51: the loop ends, fileOut is closed, freqSorter returns
Finish ==
    /\ pc = "uniq"
    /\ ~(i < Len(uniqueWordCount))
    /\ pc' = "done"
    /\ UNCHANGED <<fileName, fileOpen, fileIn, pos, totalWordCount,
                   uniqueWordCount, stemHash, stemFreq, fileOutput, out, i>>

Next ==
    \/ ReadToken
    \/ ReadEnd
    \/ Rank
    \/ OpenOutput
    \/ WriteRankRow
    \/ WriteHeader2
    \/ WriteUniqueRow
    \/ Finish

(***************************************************************************)
(* The calls main makes (line 55): freqSorter on one argument, with the    *)
(* locals as lines 27-31 construct them.                                   *)
(***************************************************************************)
Locals ==
    /\ pos = 0
    /\ totalWordCount = 0
    /\ uniqueWordCount = <<>>
    /\ stemHash = <<>>
    /\ stemFreq = <<>>
    /\ fileOutput = <<>>
    /\ out = <<>>
    /\ i = 0
    /\ pc = "read"

NotesTxt == <<"n", "o", "t", "e", "s", ".", "t", "x", "t">>

ATxt == <<"a", ".", "t", "x", "t">>

AAB == <<"a", " ", "a", " ", "b">>

\* every short input under one name, every short name with one input, and
\* files that cannot be opened
Init ==
    /\ Locals
    /\ \/ /\ fileName = ATxt
          /\ fileOpen = TRUE
          /\ fileIn \in {TextFile(s) : s \in SeqsUpTo(ContentChars, MaxLen)}
       \/ /\ fileName \in SeqsUpTo(NameChars, MaxNameLen) \cup {NotesTxt, ATxt}
          /\ fileOpen = TRUE
          /\ fileIn = TextFile(AAB)
       \/ /\ fileName \in {NotesTxt, <<"a">>}
          /\ fileOpen = FALSE
          /\ fileIn = TextFile(<<>>)

Spec == Init /\ [][Next]_vars

\* the long inputs: 49 to TopRows + LargeExtra stems, and LargeStems stems
InitTop ==
    /\ Locals
    /\ fileName = NotesTxt
    /\ fileOpen = TRUE
    /\ fileIn \in {StairFile(n) :
                   n \in ((TopRows - 1)..(TopRows + LargeExtra)) \cup {LargeStems}}

SpecTop == InitTop /\ [][Next]_vars

(***************************************************************************)
(* What the properties speak of: the words of the input, defined from the  *)
(* file's characters, and the two tables of the report.                    *)
(***************************************************************************)
\* the characters of a short input file
content == fileIn.chars

\* the positions at which a word of s starts
Starts(s) ==
    {p \in 1..Len(s) : ~IsSpace(s[p]) /\ (p = 1 \/ IsSpace(s[p - 1]))}

\* the word of s that starts at p
WordAt(s, p) ==
    SubSeq(s, p, CHOOSE q \in p..Len(s) :
                    /\ \A r \in p..q : ~IsSpace(s[r])
                    /\ (q = Len(s) \/ IsSpace(s[q + 1])))

\* the words of the first n characters of s whose start lies in them, in order
Words(s, n) ==
    LET S == {p \in Starts(s) : p <= n}
    IN  [j \in 1..Cardinality(S) |->
            WordAt(s, CHOOSE p \in S : Cardinality({x \in S : x < p}) = j - 1)]

WordsRead == IF fileOpen THEN Words(content, pos) ELSE <<>>

\* the word indices at which a word occurs for the first time
FirstSeen(w) == {j \in 1..Len(w) : \A h \in 1..(j - 1) : w[h] # w[j]}

RECURSIVE SumCounts(_, _)
SumCounts(h, D) ==
    IF D = {} THEN 0
    ELSE LET k == CHOOSE x \in D : TRUE IN h[k] + SumCounts(h, D \ {k})

ReadDone == pc # "read"

Ranked == pc \in {"open", "rows", "uniq", "done"}

PathSet == pc \in {"rows", "uniq", "done"}

TablesSplit == pc \in {"uniq", "done"}

BlankAt == CHOOSE h \in 1..Len(out) : out[h] = BlankLine

\* the rows of the first table written so far
RankedRows == SubSeq(out, 2, IF TablesSplit THEN BlankAt - 1 ELSE Len(out))

UniqueRows == SubSeq(out, BlankAt + 2, Len(out))

Min(x, y) == IF x < y THEN x ELSE y

\* C1: the counts of the frequency table sum to totalWordCount, after every
\* iteration of the read loop and ever after.
C1_SumIsTotal == SumCounts(stemHash, DOMAIN stemHash) = totalWordCount

C1_Witness ==
    /\ pc = "rank"
    /\ totalWordCount = 3
    /\ Cardinality(DOMAIN stemHash) = 2

\* C2: uniqueWordCount lists, in increasing order, exactly the 1-based word
\* indices at which a word of the input read so far occurs for the first
\* time; a word already in the table adds no entry.
C2_FirstSeenPositions ==
    LET F == FirstSeen(WordsRead)
    IN  /\ Len(uniqueWordCount) = Cardinality(F)
        /\ \A k \in 1..Len(uniqueWordCount) :
              /\ uniqueWordCount[k] \in F
              /\ Cardinality({j \in F : j < uniqueWordCount[k]}) = k - 1

C2_Witness ==
    /\ pc = "rank"
    /\ Len(WordsRead) = 3
    /\ uniqueWordCount = <<1, 3>>

IsAAB == fileOpen /\ content = AAB

TwoThirds == [kind |-> "finite", mant |-> 11184811, exp |-> -24]

AABCounts == [w \in {<<"a">>, <<"b">>} |-> IF w = <<"a">> THEN 2 ELSE 1]

AABTopRow == <<Quoted(<<"a">>), 2, 1, TwoThirds>>

\* C3 as stated: for "a a b" the read pass ends with {a:2, b:1}, a total of
\* 3 and UniqueWordPositions = [1,2], and the first ranked row is
\* ("a", 2, 1, 2/3).
C3_AsStated ==
    IsAAB =>
        /\ ReadDone => /\ stemHash = AABCounts
                       /\ totalWordCount = 3
                       /\ uniqueWordCount = <<1, 2>>
        /\ (PathSet /\ Len(out) >= 2) => out[2] = AABTopRow

\* C3 amended: for "a a b" the read pass ends with {a:2, b:1}, a total of 3
\* and UniqueWordPositions = [1,3] (b is the third word), and the first
\* ranked row is ("a", 2, 1, the float nearest 2/3).
C3_AAB ==
    IsAAB =>
        /\ ReadDone => /\ stemHash = AABCounts
                       /\ totalWordCount = 3
                       /\ uniqueWordCount = <<1, 3>>
        /\ (PathSet /\ Len(out) >= 2) => out[2] = AABTopRow

C3_Witness == IsAAB /\ pc = "done" /\ Len(out) = 7

\* C4: uniqueWordCount has one entry per key of the frequency table at every
\* step, and the second table of the finished report has one row per
\* distinct word, numbered 1..n.
C4_OnePerDistinct ==
    /\ Len(uniqueWordCount) = Cardinality(DOMAIN stemHash)
    /\ pc = "done" =>
          /\ Len(UniqueRows) = Cardinality(DOMAIN stemHash)
          /\ \A k \in 1..Len(UniqueRows) :
                UniqueRows[k] = <<uniqueWordCount[k], k>>

C4_Witness ==
    /\ pc = "done"
    /\ Cardinality(DOMAIN stemHash) = 2
    /\ totalWordCount > 2
    /\ Len(UniqueRows) = 2

\* C5: after the sort stemFreq holds every (word, count) entry of the table
\* exactly once, and the counts never increase along it.
C5_RankedIsSortedPermutation ==
    Ranked =>
        /\ Len(stemFreq) = Cardinality(DOMAIN stemHash)
        /\ {stemFreq[k] : k \in 1..Len(stemFreq)} = Entries(stemHash)
        /\ \A j \in 1..Len(stemFreq) : \A k \in j..Len(stemFreq) :
              stemFreq[j][2] >= stemFreq[k][2]

C5_Witness ==
    /\ Ranked
    /\ Len(stemFreq) = 2
    /\ stemFreq[1][2] > stemFreq[2][2]

\* C6: the ranked section holds min(50, number of distinct words) rows, and
\* its k-th row carries the k-th entry of stemFreq with rank k.
C6_TopFifty ==
    TablesSplit =>
        /\ Len(RankedRows) = Min(50, Cardinality(DOMAIN stemHash))
        /\ \A k \in 1..Len(RankedRows) :
              /\ RankedRows[k][1] = Quoted(stemFreq[k][1])
              /\ RankedRows[k][2] = stemFreq[k][2]
              /\ RankedRows[k][3] = k

C6_Witness ==
    /\ pc = "done"
    /\ Cardinality(DOMAIN stemHash) = 100
    /\ Len(RankedRows) = 50

NoWords == ~fileOpen \/ \A p \in 1..Len(content) : IsSpace(content[p])

\* C7: an input with no word (empty, all whitespace, or not openable) ends
\* the read pass with a zero total and empty tables, and the finished report
\* is the two headers around the blank line, with no data row.
C7_EmptyInput ==
    NoWords =>
        /\ ReadDone => /\ totalWordCount = 0
                       /\ stemHash = <<>>
                       /\ uniqueWordCount = <<>>
        /\ pc = "done" => out = <<Header1, BlankLine, Header2>>

C7_Witness == NoWords /\ fileOpen /\ Len(content) > 0 /\ pc = "done"

\* C8: for a file name of at least 4 characters the output path is the name
\* without its last 4 characters, followed by "_Output.csv".
C8_StripFour ==
    (PathSet /\ Len(fileName) >= 4) =>
        /\ fileOutput = SubSeq(fileName, 1, Len(fileName) - 4) \o Suffix
        /\ fileName = NotesTxt => fileOutput = <<"n", "o", "t", "e", "s">> \o Suffix
        /\ fileName = ATxt => fileOutput = <<"a">> \o Suffix

C8_Witness ==
    /\ pc = "done"
    /\ Len(fileName) = 5
    /\ fileName[2] # "."
    /\ Len(fileOutput) = 12

\* C9 as stated: a run that reaches the report writer with totalWordCount = 0
\* evaluates frequency / totalWordCount there (writes a row whose
\* probability is a division by zero).
C9_AsStated ==
    (TablesSplit /\ totalWordCount = 0) =>
        \E k \in 1..Len(RankedRows) : RankedRows[k][4].kind \in {"inf", "nan"}

\* C9 amended: the division of line 47 is never evaluated with
\* totalWordCount = 0: the loop body runs only when totalWordCount >= 1, and
\* every probability written is finite.
C9_NoZeroDivision ==
    /\ (pc = "rows" /\ MoreRankRows(i, Len(stemFreq))) => totalWordCount >= 1
    /\ \A k \in 1..Len(RankedRows) : RankedRows[k][4].kind = "finite"

C9_Witness == TablesSplit /\ totalWordCount = 0 /\ Len(RankedRows) = 0

\* 2^SizeBits - d, for 1 <= d <= 2^16
Wrapped(d) ==
    [k \in 1..NumLimbs |-> IF k = 1 THEN LimbBase - d ELSE LimbBase - 1]

\* C10: for a file name of fewer than 4 characters size()-4 wraps to
\* 2^SizeBits - (4 - size()), which exceeds the length of the name, and the output
\* path is the whole name followed by "_Output.csv".
C10_ShortName ==
    (PathSet /\ Len(fileName) < 4) =>
        /\ StripCount(fileName) = Wrapped(4 - Len(fileName))
        /\ SizeLess(ToSizeT(Len(fileName)), StripCount(fileName))
        /\ fileOutput = fileName \o Suffix

C10_Witness ==
    /\ pc = "done"
    /\ Len(fileName) = 3
    /\ Len(fileOutput) = 14

====
